---- MODULE Spec2Model ----
(***************************************************************************)
(* Model of web/chat_optimize.js: the chat node's sendAction dispatcher,   *)
(* getLLMConfig, propagateOutput, updateWidgetLock and the shared history  *)
(* modal, over a small LiteGraph-like arena of nodes, links and widgets.   *)
(*                                                                         *)
(* JavaScript values are written as follows: strings and booleans as       *)
(* themselves, null as Null, undefined as Undefined.  An object reference  *)
(* that may be null (historyModal) is a sequence of length 0 or 1.  DOM    *)
(* styling and the viewer's textarea (inputEl) are not modelled.           *)
(***************************************************************************)
EXTENDS Naturals, Sequences, FiniteSets, TLC

VARIABLES
    nodes,         \* ids that app.graph.getNodeById resolves
    links,         \* app.graph.links: link id -> [origin_id, target_id, target_slot]
    inputs,        \* node.inputs: node -> sequence of [name, link, widget]
    outputs,       \* node.outputs: node -> sequence of [links]
    widgets,       \* node.widgets: node -> (widget name -> value)
    disabled,      \* w.disabled: node -> (widget name -> JS value)
    historyModal,  \* the module-level historyModal: <<>> or <<[display, textContent, atBottom]>>
    document,      \* what ensureHistoryModal attached to the document
    scrollTimers,  \* pending setTimeout(.., 0) callbacks of openHistoryModal
    lockTimers,    \* pending setTimeout(.., 100) callbacks of updateWidgetLock, per node
    pending,       \* sendAction calls suspended at `await postJSON`, oldest first
    escaped,       \* TRUE once an exception left sendAction
    last           \* the handler that ran last, with what it sent or received

vars == <<nodes, links, inputs, outputs, widgets, disabled, historyModal,
          document, scrollTimers, lockTimers, pending, escaped, last>>

graphVars == <<nodes, links, inputs, outputs>>

----------------------------------------------------------------------------
(* Bounds *)

MaxInFlight == 2
MaxTimers == 2

----------------------------------------------------------------------------
(* JavaScript values *)

Null == "null"
Undefined == "undefined"
NoWidget == "no-widget"

\* A variant without the fallback
OrEmptyIdentity(v) == v

\* `v || ""` for a string-or-missing v
OrEmpty(v) == IF v \in {Null, Undefined, ""} THEN "" ELSE v

\* `v ?? ""`
NullishEmpty(v) == IF v \in {Null, Undefined} THEN "" ELSE v

JsBool(b) == IF b THEN "true" ELSE "false"

----------------------------------------------------------------------------
(* The arena *)

\* Nodes by the setup routine nodeCreated gave them: comfyClass in
\* CHAT_CLASSES, comfyClass = VIEWER_CLASS, and the host's other nodes.
ChatNodes == {"chat", "chat2"}
ViewerNodes == {"viewer", "viewer2"}
ConfigSources == {"cfg", "cfg2"}
Consumers == {"text", "note"}
NodeIds == ChatNodes \cup ViewerNodes \cup ConfigSources \cup Consumers

\* Every link the host can hold, with the endpoints it was made with.
LinkRecords ==
    [ L1 |-> [origin_id |-> "cfg",  target_id |-> "chat",   target_slot |-> 1],
      L2 |-> [origin_id |-> "chat", target_id |-> "text",   target_slot |-> 1],
      L3 |-> [origin_id |-> "chat", target_id |-> "viewer", target_slot |-> 1],
      L4 |-> [origin_id |-> "chat", target_id |-> "note",   target_slot |-> 1],
      L5 |-> [origin_id |-> "chat", target_id |-> "text",   target_slot |-> 2],
      L6 |-> [origin_id |-> "cfg2", target_id |-> "cfg",    target_slot |-> 1],
      L7 |-> [origin_id |-> "chat2", target_id |-> "viewer2", target_slot |-> 1],
      L8 |-> [origin_id |-> "chat", target_id |-> "chat",   target_slot |-> 2] ]

\* L8 leaves the chat node and enters it again
LoopLinks == {"L8"}
LinkIds == DOMAIN LinkRecords \ LoopLinks

getNodeById(id) == IF id \in nodes THEN <<id>> ELSE <<>>
linkById(id) == IF id \in DOMAIN links THEN <<links[id]>> ELSE <<>>

\* node.widgets?.find(w => w.name === name)
HasWidget(ws, n, name) == n \in DOMAIN ws /\ name \in DOMAIN ws[n]

\* The widgets that carry an onChange: setupHistoryViewer installs one on
\* the viewer's history widget; addOrGetWidget and the host install none.
HasOnChange(n, name) == n \in ViewerNodes /\ name = "history"

----------------------------------------------------------------------------
(* The history modal.  h is the mutable state a handler works on:          *)
(* [widgets, historyModal, document, scrollTimers, calls, notified,        *)
(* thrown].                                                                *)

\* calls lists the texts historyWidget.onChange was called with, notified
\* the <<node, widget, value>> of every w.onChange(value) made; thrown is
\* <<message>> while an exception is propagating.
Heap == [ widgets |-> widgets, historyModal |-> historyModal,
          document |-> document, scrollTimers |-> scrollTimers,
          calls |-> <<>>, notified |-> <<>>, thrown |-> <<>> ]

\* A variant that builds a new overlay on every call
ensureHistoryModalRebuild(h) ==
    [h EXCEPT
        !.document = [overlays |-> @.overlays + 1, keydown |-> @.keydown + 1],
        !.historyModal = <<[display |-> "none", textContent |-> "",
                            atBottom |-> TRUE]>>]

ensureHistoryModal(h) ==
    IF h.historyModal # <<>> THEN h
    ELSE [h EXCEPT
            !.document = [overlays |-> @.overlays + 1, keydown |-> @.keydown + 1],
            !.historyModal = <<[display |-> "none", textContent |-> "",
                                atBottom |-> TRUE]>>]

\* A variant that adds the text to what the modal already shows
openHistoryModalAppend(h, text) ==
    LET m == ensureHistoryModal(h)
    IN  [m EXCEPT !.historyModal = <<[display |-> "flex",
                                      textContent |-> m.historyModal[1].textContent
                                                        \o OrEmpty(text),
                                      atBottom |-> FALSE]>>,
                  !.scrollTimers = @ + 1]

openHistoryModal(h, text) ==
    LET m == ensureHistoryModal(h)
    IN  [m EXCEPT !.historyModal = <<[display |-> "flex",
                                      textContent |-> OrEmpty(text),
                                      atBottom |-> FALSE]>>,
                  !.scrollTimers = @ + 1]

closeHistoryModal(h) ==
    IF h.historyModal = <<>> THEN h
    ELSE [h EXCEPT !.historyModal[1].display = "none"]

isHistoryModalOpen(h) ==
    h.historyModal # <<>> /\ h.historyModal[1].display # "none"

\* A variant that shows the modal on every update
historyOnChangeAlwaysOpen(h, v) ==
    openHistoryModal([h EXCEPT !.calls = Append(@, v)], OrEmpty(v))

\* historyWidget.onChange of setupHistoryViewer
historyOnChange(h, v) ==
    LET h1 == [h EXCEPT !.calls = Append(@, v)]
    IN  IF isHistoryModalOpen(h1) THEN openHistoryModal(h1, OrEmpty(v)) ELSE h1

\* `if (w.onChange) w.onChange(v)`
onChange(h, n, name, v) ==
    IF HasOnChange(n, name)
    THEN historyOnChange([h EXCEPT !.notified = Append(@, <<n, name, v>>)], v)
    ELSE h

setWidgetValue(h, n, name, value) ==
    IF ~HasWidget(h.widgets, n, name) THEN h
    ELSE onChange([h EXCEPT !.widgets[n][name] = NullishEmpty(value)],
                  n, name, value)

----------------------------------------------------------------------------
(* Output propagation.  Slots and sequence positions are 1-based here:     *)
(* JavaScript slot k is position k + 1.                                    *)

\* The widget a link delivers to, <<node, name>>, or <<>> when the link
\* record, the target node, the target input or its widget is missing.
linkTarget(ws, linkId) ==
    LET link == linkById(linkId) IN
    IF link = <<>> THEN <<>> ELSE
    LET targetNode == getNodeById(link[1].target_id) IN
    IF targetNode = <<>> THEN <<>> ELSE
    LET t == targetNode[1]
        slot == link[1].target_slot IN
    IF ~(t \in DOMAIN inputs /\ slot \in DOMAIN inputs[t]
         /\ inputs[t][slot].widget # NoWidget) THEN <<>> ELSE
    LET widgetName == inputs[t][slot].widget IN
    IF ~HasWidget(ws, t, widgetName) THEN <<>> ELSE <<t, widgetName>>

\* A variant that stores the value and leaves the callback alone
propagateLinkSilent(h, linkId, value) ==
    LET tw == linkTarget(h.widgets, linkId) IN
    IF tw = <<>> THEN h
    ELSE [h EXCEPT !.widgets[tw[1]][tw[2]] = value]

\* One turn of the forEach callback
propagateLink(h, linkId, value) ==
    LET tw == linkTarget(h.widgets, linkId) IN
    IF tw = <<>> THEN h
    ELSE onChange([h EXCEPT !.widgets[tw[1]][tw[2]] = value], tw[1], tw[2], value)

\* A variant that gives up at the first link it cannot resolve
RECURSIVE propagateLinksBreak(_, _, _)
propagateLinksBreak(h, ls, value) ==
    IF ls = <<>> \/ linkTarget(h.widgets, Head(ls)) = <<>> THEN h
    ELSE propagateLinksBreak(propagateLink(h, Head(ls), value), Tail(ls), value)

RECURSIVE propagateLinks(_, _, _)
propagateLinks(h, ls, value) ==
    IF ls = <<>> THEN h
    ELSE propagateLinks(propagateLink(h, Head(ls), value), Tail(ls), value)

propagateOutput(h, n, slotIndex, value) ==
    IF ~(n \in DOMAIN outputs /\ slotIndex \in DOMAIN outputs[n]
         /\ "links" \in DOMAIN outputs[n][slotIndex]) THEN h
    ELSE propagateLinks(h, outputs[n][slotIndex].links, value)

----------------------------------------------------------------------------
(* Configuration resolver *)

\* The widget names getLLMConfig looks up, in its order; each is copied
\* under the same key.
ConfigFields == <<"provider", "base_url", "model_name", "temperature",
                  "top_p", "max_new_tokens", "hf_token">>

Range(s) == {s[i] : i \in DOMAIN s}

\* node.inputs?.find(i => i.name === "llm_config"): <<input>> or <<>>
llmConfigInput(n) ==
    IF n \notin DOMAIN inputs THEN <<>>
    ELSE LET idx == {i \in DOMAIN inputs[n] : inputs[n][i].name = "llm_config"}
         IN  IF idx = {} THEN <<>>
             ELSE <<inputs[n][CHOOSE i \in idx : \A j \in idx : i <= j]>>

\* A variant without the check of line 169 on the origin node
getLLMConfigNoOriginCheck(ws, n) ==
    LET input == llmConfigInput(n) IN
    IF input = <<>> THEN [found |-> FALSE] ELSE
    IF input[1].link = Null THEN [found |-> FALSE] ELSE
    LET link == linkById(input[1].link) IN
    IF link = <<>> THEN [found |-> FALSE] ELSE
    LET src == link[1].origin_id
        present == {f \in Range(ConfigFields) : HasWidget(ws, src, f)}
    IN  [found |-> TRUE, config |-> [f \in present |-> ws[src][f]]]

\* A variant that fills in a provider when the origin has none
getLLMConfigDefaults(ws, n) ==
    LET input == llmConfigInput(n) IN
    IF input = <<>> THEN [found |-> FALSE] ELSE
    IF input[1].link = Null THEN [found |-> FALSE] ELSE
    LET link == linkById(input[1].link) IN
    IF link = <<>> THEN [found |-> FALSE] ELSE
    LET sourceNode == getNodeById(link[1].origin_id) IN
    IF sourceNode = <<>> THEN [found |-> FALSE] ELSE
    LET src == sourceNode[1]
        present == {f \in Range(ConfigFields) : HasWidget(ws, src, f)}
    IN  [found |-> TRUE,
         config |-> [f \in present \cup {"provider"} |->
                        IF f \in present THEN ws[src][f] ELSE "ollama"]]

\* [found |-> FALSE] is the null return, [found |-> TRUE, config |-> c] an object
getLLMConfig(ws, n) ==
    LET input == llmConfigInput(n) IN
    IF input = <<>> THEN [found |-> FALSE] ELSE
    IF input[1].link = Null THEN [found |-> FALSE] ELSE
    LET link == linkById(input[1].link) IN
    IF link = <<>> THEN [found |-> FALSE] ELSE
    LET sourceNode == getNodeById(link[1].origin_id) IN
    IF sourceNode = <<>> THEN [found |-> FALSE] ELSE
    LET src == sourceNode[1]
        present == {f \in Range(ConfigFields) : HasWidget(ws, src, f)}
    IN  [found |-> TRUE, config |-> [f \in present |-> ws[src][f]]]

----------------------------------------------------------------------------
(* Widget lock *)

LockedWidgets == {"base_url", "model_name"}

\* A variant that locks on connection and never unlocks
updateWidgetLockNeverUnlocks(n) ==
    LET input == llmConfigInput(n)
        isConnected == input # <<>> /\ input[1].link # Null
    IN  [disabled EXCEPT ![n] =
            [name \in DOMAIN @ |->
                IF name \in LockedWidgets /\ HasWidget(widgets, n, name)
                   /\ isConnected
                THEN "true" ELSE @[name]]]

updateWidgetLock(n) ==
    LET input == llmConfigInput(n)
        isConnected == IF input = <<>> THEN Undefined
                       ELSE JsBool(input[1].link # Null)
    IN  [disabled EXCEPT ![n] =
            [name \in DOMAIN @ |->
                IF name \in LockedWidgets /\ HasWidget(widgets, n, name)
                THEN isConnected ELSE @[name]]]

----------------------------------------------------------------------------
(* The backend, as postJSON sees it *)

Actions == {"send", "regenerate"}

\* Response bodies of a 2xx answer: objects with some of the two fields
Responses ==
    { [assistant_response |-> "hi", readable_history |-> "A"],
      [assistant_response |-> "",   readable_history |-> "A B"],
      [readable_history |-> "A"],
      <<>> }

Outcomes ==
    { [kind |-> "reject", message |-> "Failed to fetch"],
      [kind |-> "http", ok |-> FALSE, statusText |-> "Internal Server Error",
       text |-> "boom"] }
    \cup { [kind |-> "http", ok |-> TRUE, statusText |-> "OK", json |-> d]
            : d \in Responses }

\* A variant that reports the status line instead of the body
postJSONStatusText(outcome) ==
    IF outcome.kind = "reject"
    THEN [threw |-> TRUE, message |-> outcome.message]
    ELSE IF ~outcome.ok
         THEN [threw |-> TRUE, message |-> outcome.statusText]
         ELSE [threw |-> FALSE, data |-> outcome.json]

\* What `await postJSON(ROUTE_CHAT, payload)` yields for an outcome of the
\* request: the parsed body, or an Error with a message.
postJSON(outcome) ==
    IF outcome.kind = "reject"
    THEN [threw |-> TRUE, message |-> outcome.message]
    ELSE IF ~outcome.ok
         THEN [threw |-> TRUE, message |-> outcome.text]
         ELSE [threw |-> FALSE, data |-> outcome.json]

\* data.f
Field(data, f) == IF f \in DOMAIN data THEN data[f] ELSE Undefined

----------------------------------------------------------------------------
(* sendAction *)

\* A variant that lets the auto-clear toggle through
excludeWidgetsShort == {"status", "history_preview", "assistant_response_preview"}

excludeWidgets == {"status", "history_preview", "assistant_response_preview",
                   "auto_clear_input"}

\* lines 224-225
readAction(ws, n) ==
    IF HasWidget(ws, n, "action") THEN ws[n]["action"] ELSE "send"

statusWorking(action) == "working: " \o action \o "..."
statusError(message) == "error: " \o message

\* lines 231-241
buildPayload(ws, n, action) ==
    LET copied == DOMAIN ws[n] \ excludeWidgets
        llmConfig == getLLMConfig(ws, n)
        keys == copied \cup {"action"}
                \cup (IF llmConfig.found THEN {"llm_config"} ELSE {})
    IN  [k \in keys |->
            IF k = "llm_config" /\ llmConfig.found THEN llmConfig.config
            ELSE IF k = "action" THEN action
            ELSE ws[n][k]]

\* A variant that stores the two fields in each other's cache widget
sendActionThenSwapped(h, n, action, data) ==
    LET h1 == [h EXCEPT
                 !.widgets[n]["history_preview"] =
                     OrEmpty(Field(data, "assistant_response")),
                 !.widgets[n]["assistant_response_preview"] =
                     OrEmpty(Field(data, "readable_history"))]
        h2 == propagateOutput(h1, n, 1, OrEmpty(Field(data, "assistant_response")))
        h3 == propagateOutput(h2, n, 2, OrEmpty(Field(data, "readable_history")))
        autoClear == HasWidget(h3.widgets, n, "auto_clear_input")
                     /\ h3.widgets[n]["auto_clear_input"] = TRUE
        h4 == IF action = "send" /\ autoClear
              THEN setWidgetValue(h3, n, "user_message", "")
              ELSE h3
    IN  [h4 EXCEPT !.widgets[n]["status"] = "done"]

\* A variant that clears the input after any action
sendActionThenAnyAction(h, n, action, data) ==
    LET h1 == [h EXCEPT
                 !.widgets[n]["assistant_response_preview"] =
                     OrEmpty(Field(data, "assistant_response")),
                 !.widgets[n]["history_preview"] =
                     OrEmpty(Field(data, "readable_history"))]
        h2 == propagateOutput(h1, n, 1, OrEmpty(Field(data, "assistant_response")))
        h3 == propagateOutput(h2, n, 2, OrEmpty(Field(data, "readable_history")))
        autoClear == HasWidget(h3.widgets, n, "auto_clear_input")
                     /\ h3.widgets[n]["auto_clear_input"] = TRUE
        h4 == IF autoClear
              THEN setWidgetValue(h3, n, "user_message", "")
              ELSE h3
    IN  [h4 EXCEPT !.widgets[n]["status"] = "done"]

\* A variant that keeps a cache once it holds a text
sendActionThenKeepFirst(h, n, action, data) ==
    LET h1 == [h EXCEPT
                 !.widgets[n]["assistant_response_preview"] =
                     IF @ # "" THEN @ ELSE OrEmpty(Field(data, "assistant_response")),
                 !.widgets[n]["history_preview"] =
                     IF @ # "" THEN @ ELSE OrEmpty(Field(data, "readable_history"))]
        h2 == propagateOutput(h1, n, 1, OrEmpty(Field(data, "assistant_response")))
        h3 == propagateOutput(h2, n, 2, OrEmpty(Field(data, "readable_history")))
        autoClear == HasWidget(h3.widgets, n, "auto_clear_input")
                     /\ h3.widgets[n]["auto_clear_input"] = TRUE
        h4 == IF action = "send" /\ autoClear
              THEN setWidgetValue(h3, n, "user_message", "")
              ELSE h3
    IN  [h4 EXCEPT !.widgets[n]["status"] = "done"]

\* A variant that ends without writing the status
sendActionThenKeepsStatus(h, n, action, data) ==
    LET h1 == [h EXCEPT
                 !.widgets[n]["assistant_response_preview"] =
                     OrEmpty(Field(data, "assistant_response")),
                 !.widgets[n]["history_preview"] =
                     OrEmpty(Field(data, "readable_history"))]
        h2 == propagateOutput(h1, n, 1, OrEmpty(Field(data, "assistant_response")))
        h3 == propagateOutput(h2, n, 2, OrEmpty(Field(data, "readable_history")))
        autoClear == HasWidget(h3.widgets, n, "auto_clear_input")
                     /\ h3.widgets[n]["auto_clear_input"] = TRUE
    IN  IF action = "send" /\ autoClear
        THEN setWidgetValue(h3, n, "user_message", "")
        ELSE h3

\* lines 245-257: the try block after the await
sendActionThen(h, n, action, data) ==
    LET h1 == [h EXCEPT
                 !.widgets[n]["assistant_response_preview"] =
                     OrEmpty(Field(data, "assistant_response")),
                 !.widgets[n]["history_preview"] =
                     OrEmpty(Field(data, "readable_history"))]
        h2 == propagateOutput(h1, n, 1, OrEmpty(Field(data, "assistant_response")))
        h3 == propagateOutput(h2, n, 2, OrEmpty(Field(data, "readable_history")))
        autoClear == HasWidget(h3.widgets, n, "auto_clear_input")
                     /\ h3.widgets[n]["auto_clear_input"] = TRUE
        h4 == IF action = "send" /\ autoClear
              THEN setWidgetValue(h3, n, "user_message", "")
              ELSE h3
    IN  [h4 EXCEPT !.widgets[n]["status"] = "done"]

\* A variant whose catch block also empties the two caches
sendActionCatchReset(h, n) ==
    [h EXCEPT !.widgets[n]["status"] = statusError(h.thrown[1]),
              !.widgets[n]["assistant_response_preview"] = "",
              !.widgets[n]["history_preview"] = "",
              !.thrown = <<>>]

\* A variant whose catch block leaves the status as it is
sendActionCatchSilent(h, n) ==
    [h EXCEPT !.thrown = <<>>]

\* lines 260-264: the catch block
sendActionCatch(h, n) ==
    [h EXCEPT !.widgets[n]["status"] = statusError(h.thrown[1]),
              !.thrown = <<>>]

\* lines 243-264: what runs when the awaited request settles
sendActionSettle(h, n, action, outcome) ==
    LET res == postJSON(outcome) IN
    IF res.threw
    THEN sendActionCatch([h EXCEPT !.thrown = <<res.message>>], n)
    ELSE sendActionThen(h, n, action, res.data)

Remove(s, i) == SubSeq(s, 1, i - 1) \o SubSeq(s, i + 1, Len(s))

\* The Execute button: sendAction up to its await
sendActionStart(n) ==
    /\ Len(pending) < MaxInFlight
    /\ LET action == readAction(widgets, n)
           ws == [widgets EXCEPT ![n]["status"] = statusWorking(action)]
       IN  /\ widgets' = ws
           /\ pending' = Append(pending, [node |-> n, action |-> action])
           /\ last' = [kind |-> "sent", node |-> n,
                       info |-> buildPayload(ws, n, action)]
    /\ UNCHANGED <<graphVars, disabled, historyModal, document, scrollTimers,
                   lockTimers, escaped>>

\* A variant that reads the action widget again when it resumes
sendActionResumeRereadsAction(i, outcome) ==
    LET r == pending[i]
        h == sendActionSettle(Heap, r.node, readAction(widgets, r.node), outcome)
    IN  /\ h.scrollTimers <= MaxTimers
        /\ widgets' = h.widgets
        /\ historyModal' = h.historyModal
        /\ document' = h.document
        /\ scrollTimers' = h.scrollTimers
        /\ escaped' = (escaped \/ h.thrown # <<>>)
        /\ pending' = Remove(pending, i)
        /\ last' = [kind |-> IF postJSON(outcome).threw THEN "failed" ELSE "landed",
                    node |-> r.node,
                    info |-> [action |-> r.action, outcome |-> outcome,
                              calls |-> h.calls, notified |-> h.notified]]
        /\ UNCHANGED <<graphVars, disabled, lockTimers>>

\* The request of pending[i] settles and sendAction resumes
sendActionResume(i, outcome) ==
    LET r == pending[i]
        h == sendActionSettle(Heap, r.node, r.action, outcome)
    IN  /\ h.scrollTimers <= MaxTimers
        /\ widgets' = h.widgets
        /\ historyModal' = h.historyModal
        /\ document' = h.document
        /\ scrollTimers' = h.scrollTimers
        /\ escaped' = (escaped \/ h.thrown # <<>>)
        /\ pending' = Remove(pending, i)
        /\ last' = [kind |-> IF postJSON(outcome).threw THEN "failed" ELSE "landed",
                    node |-> r.node,
                    info |-> [action |-> r.action, outcome |-> outcome,
                              calls |-> h.calls, notified |-> h.notified]]
        /\ UNCHANGED <<graphVars, disabled, lockTimers>>

----------------------------------------------------------------------------
(* The other handlers this file registers *)

\* The "Open History" button of a viewer node (line 288)
OpenHistory(v) ==
    /\ scrollTimers < MaxTimers
    /\ LET getHistoryText == NullishEmpty(widgets[v]["history"])
           h == openHistoryModal(Heap, getHistoryText)
       IN  /\ historyModal' = h.historyModal
           /\ document' = h.document
           /\ scrollTimers' = h.scrollTimers
    /\ last' = [kind |-> "open", node |-> v, info |-> <<>>]
    /\ UNCHANGED <<graphVars, widgets, disabled, lockTimers, pending, escaped>>

\* The Close button, a click on the overlay, or Escape (lines 58, 76, 81):
\* listeners that exist once the modal was built
CloseHistory ==
    /\ historyModal # <<>>
    /\ historyModal' = closeHistoryModal(Heap).historyModal
    /\ last' = [kind |-> "close", node |-> Null, info |-> <<>>]
    /\ UNCHANGED <<graphVars, widgets, disabled, document, scrollTimers,
                   lockTimers, pending, escaped>>

\* The setTimeout callback of openHistoryModal (lines 93-95)
ScrollTick ==
    /\ scrollTimers > 0
    /\ scrollTimers' = scrollTimers - 1
    /\ historyModal' = [historyModal EXCEPT ![1].atBottom = TRUE]
    /\ last' = [kind |-> "scroll", node |-> Null, info |-> <<>>]
    /\ UNCHANGED <<graphVars, widgets, disabled, document, lockTimers,
                   pending, escaped>>

\* The setTimeout callback of lines 267-268
LockTick(n) ==
    /\ lockTimers[n] > 0
    /\ lockTimers' = [lockTimers EXCEPT ![n] = @ - 1]
    /\ disabled' = updateWidgetLock(n)
    /\ last' = [kind |-> "lock", node |-> n, info |-> <<>>]
    /\ UNCHANGED <<graphVars, widgets, historyModal, document, scrollTimers,
                   pending, escaped>>

----------------------------------------------------------------------------
(* The host: the user edits a widget, the graph editor changes links *)

Messages == {"", "hello"}

Editable ==
    [ chat |-> [action |-> Actions, user_message |-> Messages,
                auto_clear_input |-> BOOLEAN],
      cfg |-> [provider |-> {"openai", "ollama"}, api_key |-> {"sk-1", "sk-2"}] ]

\* The host's own widget edit: it sets w.value (and calls w.callback, which
\* addOrGetWidget left empty); it does not call onChange.
EditWidget(n, name, v) ==
    /\ HasWidget(widgets, n, name)
    /\ widgets[n][name] # v
    /\ widgets' = [widgets EXCEPT ![n][name] = v]
    /\ last' = [kind |-> "edit", node |-> n, info |-> <<>>]
    /\ UNCHANGED <<graphVars, disabled, historyModal, document, scrollTimers,
                   lockTimers, pending, escaped>>

\* node.onConnectionsChange of a chat node (line 267)
onConnectionsChange(n) ==
    lockTimers' = [lockTimers EXCEPT ![n] = @ + 1]

setInputLink(n, slot, link) == [inputs EXCEPT ![n][slot].link = link]

\* The user wires the LLM Config node into the chat node's llm_config input
ConnectConfig ==
    /\ inputs["chat"][1].link = Null
    /\ "cfg" \in nodes
    /\ lockTimers["chat"] < MaxTimers
    /\ inputs' = setInputLink("chat", 1, "L1")
    /\ links' = [id \in DOMAIN links \cup {"L1"} |-> LinkRecords[id]]
    /\ onConnectionsChange("chat")
    /\ last' = [kind |-> "connect", node |-> "chat", info |-> <<>>]
    /\ UNCHANGED <<nodes, outputs, widgets, disabled, historyModal, document,
                   scrollTimers, pending, escaped>>

\* The user removes that wire
DisconnectConfig ==
    /\ inputs["chat"][1].link # Null
    /\ lockTimers["chat"] < MaxTimers
    /\ inputs' = setInputLink("chat", 1, Null)
    /\ links' = [id \in DOMAIN links \ {"L1"} |-> LinkRecords[id]]
    /\ onConnectionsChange("chat")
    /\ last' = [kind |-> "disconnect", node |-> "chat", info |-> <<>>]
    /\ UNCHANGED <<nodes, outputs, widgets, disabled, historyModal, document,
                   scrollTimers, pending, escaped>>

\* The link record leaves the graph's table while the input still names it
DropLinkRecord ==
    /\ "L1" \in DOMAIN links
    /\ links' = [id \in DOMAIN links \ {"L1"} |-> LinkRecords[id]]
    /\ last' = [kind |-> "droplink", node |-> "chat", info |-> <<>>]
    /\ UNCHANGED <<nodes, inputs, outputs, widgets, disabled, historyModal,
                   document, scrollTimers, lockTimers, pending, escaped>>

\* The origin node leaves the graph while the link still names it
RemoveOrigin ==
    /\ "cfg" \in nodes
    /\ nodes' = nodes \ {"cfg"}
    /\ last' = [kind |-> "removenode", node |-> "cfg", info |-> <<>>]
    /\ UNCHANGED <<links, inputs, outputs, widgets, disabled, historyModal,
                   document, scrollTimers, lockTimers, pending, escaped>>

----------------------------------------------------------------------------
(* Initial states: the graph after nodeCreated ran on every node *)

ChatWidgets ==
    [ status |-> "idle", history_preview |-> "", assistant_response_preview |-> "",
      model_name |-> "llama3", base_url |-> "http://localhost:11434",
      user_message |-> "hello", action |-> "send", session_id |-> "default",
      system_prompt |-> "", refresh_session |-> FALSE,
      auto_clear_input |-> TRUE, Execute |-> Null ]

\* A chat node of the other class: no action selector, no auto-clear toggle
Chat2Widgets ==
    [ status |-> "idle", history_preview |-> "", assistant_response_preview |-> "",
      model_name |-> "llama3", base_url |-> "http://localhost:11434",
      user_message |-> "hello", Execute |-> Null ]

CfgWidgets ==
    [ provider |-> "openai", base_url |-> "https://api.openai.com/v1",
      model_name |-> "gpt-4o", temperature |-> 1, top_p |-> 1,
      max_new_tokens |-> 256, hf_token |-> "", hf_api_url |-> "",
      api_key |-> "sk-1" ]

Cfg2Widgets == [ provider |-> "ollama", hf_token |-> "hf-2" ]

Restrict(f, S) == [k \in DOMAIN f \cap S |-> f[k]]

InitWidgets(cfgShape, noteWidgets) ==
    [ chat |-> ChatWidgets, chat2 |-> Chat2Widgets,
      cfg |-> Restrict(CfgWidgets, cfgShape), cfg2 |-> Cfg2Widgets,
      text |-> [text |-> ""], note |-> noteWidgets,
      viewer |-> [history |-> "", OpenHistory |-> Null],
      viewer2 |-> [history |-> "", OpenHistory |-> Null] ]

InitInputs(cfgLink) ==
    [ chat |-> << [name |-> "llm_config", link |-> cfgLink, widget |-> NoWidget] >>,
      cfg |-> << [name |-> "llm_config", link |-> "L6", widget |-> NoWidget] >>,
      text |-> << [name |-> "text", link |-> "L2", widget |-> "text"],
                  [name |-> "clip", link |-> "L5", widget |-> NoWidget] >>,
      note |-> << [name |-> "text", link |-> "L4", widget |-> "text"] >>,
      viewer |-> << [name |-> "history", link |-> "L3", widget |-> "history"] >>,
      viewer2 |-> << [name |-> "history", link |-> "L7", widget |-> "history"] >> ]

\* Ways the consumers of output slot 0 can be wired and broken:
\* [links of slot 0, link ids missing from the table, nodes removed,
\*  widgets of the note node]
OutGraphs ==
    { [out0 |-> o, lost |-> {}, gone |-> {}, note |-> [text |-> ""]]
        : o \in {<<"L2", "L4">>, <<"L5", "L2">>, <<"L2", "L5">>} }
    \cup { [out0 |-> <<"L4", "L2">>, lost |-> {"L4"}, gone |-> {},
            note |-> [text |-> ""]],
          [out0 |-> <<"L4", "L2">>, lost |-> {}, gone |-> {"note"},
            note |-> [text |-> ""]],
          [out0 |-> <<"L4", "L2">>, lost |-> {}, gone |-> {},
            note |-> [label |-> ""]] }

InitRest ==
    /\ disabled = [n \in NodeIds |-> [w \in DOMAIN widgets[n] |-> Undefined]]
    /\ historyModal = <<>>
    /\ document = [overlays |-> 0, keydown |-> 0]
    /\ scrollTimers = 0
    /\ lockTimers = [n \in ChatNodes |-> 1]
    /\ pending = <<>>
    /\ escaped = FALSE
    /\ last = [kind |-> "init", node |-> Null, info |-> <<>>]

\* The widget sets an LLM Config node may carry (older versions of the node
\* have fewer fields)
CfgShapes ==
    { {"provider", "model_name"}, {"provider", "model_name", "api_key"},
      DOMAIN CfgWidgets, {} }

\* node.outputs of the chat nodes: the second chat node feeds its own viewer
InitOutputs(out0) ==
    [ chat |-> << [name |-> "assistant_response", links |-> out0],
                  [name |-> "readable_history", links |-> <<"L3">>] >>,
      chat2 |-> << [name |-> "assistant_response"],
                   [name |-> "readable_history", links |-> <<"L7">>] >> ]

InitGraph(g) ==
    /\ nodes = NodeIds \ g.gone
    /\ links = [id \in LinkIds \ g.lost |-> LinkRecords[id]]
    /\ outputs = InitOutputs(g.out0)
    /\ widgets = InitWidgets({"provider", "model_name", "api_key"}, g.note)
    /\ inputs = InitInputs("L1")

\* The dispatcher with its consumers wired in each of the ways of OutGraphs
Init ==
    /\ \E g \in OutGraphs : InitGraph(g)
    /\ InitRest

EditChat ==
    \E name \in DOMAIN Editable["chat"] :
        \E v \in Editable["chat"][name] : EditWidget("chat", name, v)

Next ==
    \/ sendActionStart("chat")
    \/ \E i \in DOMAIN pending, o \in Outcomes : sendActionResume(i, o)
    \/ EditChat

Spec == Init /\ [][Next]_vars

\* The dispatcher beside the history modal, every consumer resolvable
InitModal ==
    /\ InitGraph([out0 |-> <<"L2", "L4">>, lost |-> {}, gone |-> {},
                  note |-> [text |-> ""]])
    /\ InitRest

\* The failures, and the bodies with both fields or with none
ModalOutcomes ==
    {o \in Outcomes : o.kind = "http" /\ o.ok =>
                          DOMAIN o.json # {"readable_history"}}

NextModal ==
    \/ \E n \in ChatNodes : sendActionStart(n)
    \/ \E i \in DOMAIN pending, o \in ModalOutcomes : sendActionResume(i, o)
    \/ \E v \in ViewerNodes : OpenHistory(v)
    \/ CloseHistory
    \/ ScrollTick

SpecModal == InitModal /\ [][NextModal]_vars

\* The dispatcher in a workflow whose slot 0 is also wired back into the
\* chat node's own user_message input
InitLoop ==
    /\ nodes = NodeIds
    /\ links = LinkRecords
    /\ outputs = InitOutputs(<<"L8", "L2">>)
    /\ widgets = InitWidgets({"provider", "model_name", "api_key"}, [text |-> ""])
    /\ inputs = [InitInputs("L1") EXCEPT !["chat"] =
                     Append(@, [name |-> "user_message", link |-> "L8",
                                widget |-> "user_message"])]
    /\ InitRest

SpecLoop == InitLoop /\ [][Next]_vars

\* Every request settles: the oldest suspended call resumes in the end
SpecLive ==
    Spec /\ WF_vars(\E i \in DOMAIN pending \cap {1}, o \in Outcomes :
                       sendActionResume(i, o))

\* The chat nodes beside the configuration source, while the user rewires
\* it; requests stay in flight
InitConfig ==
    /\ nodes = NodeIds
    /\ \E cfgLink \in {Null, "L1"} :
        /\ inputs = InitInputs(cfgLink)
        /\ links = [id \in LinkIds \ (IF cfgLink = Null THEN {"L1"} ELSE {})
                      |-> LinkRecords[id]]
    /\ outputs = InitOutputs(<<"L2">>)
    /\ \E shape \in CfgShapes : widgets = InitWidgets(shape, [text |-> ""])
    /\ InitRest

EditConfig ==
    \E name \in DOMAIN Editable["cfg"] :
        \E v \in Editable["cfg"][name] : EditWidget("cfg", name, v)

EditAction == \E v \in Actions : EditWidget("chat", "action", v)

NextConfig ==
    \/ \E n \in ChatNodes : sendActionStart(n)
    \/ \E n \in ChatNodes : LockTick(n)
    \/ ConnectConfig
    \/ DisconnectConfig
    \/ DropLinkRecord
    \/ RemoveOrigin
    \/ EditConfig
    \/ EditAction

SpecConfig == InitConfig /\ [][NextConfig]_vars

----------------------------------------------------------------------------
(* Vocabulary of the properties *)

\* The links listed on an output slot
SlotLinks(n, slot) ==
    IF n \in DOMAIN outputs /\ slot \in DOMAIN outputs[n]
       /\ "links" \in DOMAIN outputs[n][slot]
    THEN Range(outputs[n][slot].links) ELSE {}

\* A link whose record, target node, target input and target widget exist
Resolves(l) ==
    /\ l \in DOMAIN links
    /\ links[l].target_id \in nodes
    /\ links[l].target_id \in DOMAIN inputs
    /\ links[l].target_slot \in DOMAIN inputs[links[l].target_id]
    /\ inputs[links[l].target_id][links[l].target_slot].widget
         \in DOMAIN widgets[links[l].target_id]

TargetValue(l) ==
    widgets[links[l].target_id]
           [inputs[links[l].target_id][links[l].target_slot].widget]

Landed == last.kind = "landed"
Failed == last.kind = "failed"
Sent == last.kind = "sent"

\* The message of the failure the last request ended with
FailureMessage ==
    IF last.info.outcome.kind = "reject" THEN last.info.outcome.message
    ELSE last.info.outcome.text

ModalOpen == historyModal # <<>> /\ historyModal[1].display = "flex"

\* The llm_config input of n leads to no origin node
ConfigAbsent(n) ==
    \/ n \notin DOMAIN inputs
    \/ \A i \in DOMAIN inputs[n] : inputs[n][i].name # "llm_config"
    \/ \E i \in DOMAIN inputs[n] :
        /\ inputs[n][i].name = "llm_config"
        /\ \/ inputs[n][i].link = Null
           \/ inputs[n][i].link \notin DOMAIN links
           \/ links[inputs[n][i].link].origin_id \notin nodes

\* The origin node of n's llm_config input, when ConfigAbsent(n) is false
ConfigOrigin(n) ==
    LET i == CHOOSE i \in DOMAIN inputs[n] : inputs[n][i].name = "llm_config"
    IN  links[inputs[n][i].link].origin_id

----------------------------------------------------------------------------
(* C1 .. C10 *)

\* C1: after a dispatch that succeeded with {assistant_response: R,
\* readable_history: H}, assistant_response_preview holds R, history_preview
\* holds H, and the target widget of every resolvable link of output slot 0
\* (slot 1) holds R (H).
C1_SuccessStoresAndDelivers ==
    (Landed /\ DOMAIN last.info.outcome.json
                 = {"assistant_response", "readable_history"}) =>
        LET n == last.node
            R == last.info.outcome.json["assistant_response"]
            H == last.info.outcome.json["readable_history"]
        IN  /\ widgets[n]["assistant_response_preview"] = R
            /\ widgets[n]["history_preview"] = H
            /\ \A l \in SlotLinks(n, 1) : Resolves(l) => TargetValue(l) = R
            /\ \A l \in SlotLinks(n, 2) : Resolves(l) => TargetValue(l) = H

C1_Witness ==
    /\ Landed /\ last.node = "chat"
    /\ last.info.outcome.json = [assistant_response |-> "hi", readable_history |-> "A"]
    /\ widgets["chat"]["assistant_response_preview"] = "hi"
    /\ \E l \in SlotLinks("chat", 1) : Resolves(l) /\ TargetValue(l) = "hi"
    /\ widgets["viewer"]["history"] = "A"

\* C2: after a request that failed with message M (the body of a non-2xx
\* answer, or the transport's message) the node's status is "error: " then
\* M, and no exception left sendAction.
C2_FailureShowsMessage ==
    Failed => /\ widgets[last.node]["status"] = "error: " \o FailureMessage
              /\ ~escaped

C2_Witness ==
    /\ Failed /\ last.info.outcome.kind = "http" /\ last.info.outcome.text = "boom"
    /\ widgets[last.node]["status"] = "error: boom"

\* C3: the steps of a dispatch that fails (its start, and the landing of the
\* failure) change no widget but the node's own status, and leave the
\* graph, the disabled flags and the history modal as they were.
C3_FailedDispatchIsLocal ==
    [][ (last'.kind \in {"sent", "failed"}) =>
          /\ DOMAIN widgets' = DOMAIN widgets
          /\ \A n \in DOMAIN widgets :
                /\ DOMAIN widgets'[n] = DOMAIN widgets[n]
                /\ \A w \in DOMAIN widgets[n] :
                      (n # last'.node \/ w # "status")
                          => widgets'[n][w] = widgets[n][w]
          /\ UNCHANGED <<graphVars, disabled, historyModal, document, scrollTimers>>
      ]_vars

C3_Witness ==
    /\ Failed /\ last.node = "chat2"
    /\ widgets["chat2"]["user_message"] = "hello"
    /\ widgets["chat2"]["assistant_response_preview"] = "hi"
    /\ widgets["chat"]["status"] = "working: send..."
    /\ widgets["text"]["text"] = "hi"
    /\ ModalOpen /\ historyModal[1].textContent = "A"

\* C4: a landing clears user_message exactly when it is a success, the
\* dispatch's action is send and auto_clear_input is true; every other step
\* of a dispatch leaves user_message as it was.
C4_ClearsOnlyOnSuccessfulSend ==
    [][ (last'.kind \in {"sent", "landed", "failed"}) =>
          LET n == last'.node
              clears == /\ last'.kind = "landed"
                        /\ last'.info.action = "send"
                        /\ "auto_clear_input" \in DOMAIN widgets[n]
                        /\ widgets[n]["auto_clear_input"] = TRUE
          IN  widgets'[n]["user_message"] =
                 (IF clears THEN "" ELSE widgets[n]["user_message"])
      ]_vars

C4_Witness ==
    /\ Landed /\ last.info.action = "send"
    /\ widgets[last.node]["auto_clear_input"] = TRUE
    /\ widgets[last.node]["user_message"] = ""
    /\ \E i \in DOMAIN pending : pending[i].action = "regenerate"

\* C5: when the llm_config input is absent, unconnected, names a link id
\* missing from the table, or leads to a removed origin, getLLMConfig
\* returns null, nothing is thrown, and the payload sent has no llm_config.
C5_NoConfigNoKey ==
    /\ \A n \in ChatNodes :
          ConfigAbsent(n) => ~getLLMConfig(widgets, n).found
    /\ (Sent /\ ConfigAbsent(last.node)) => "llm_config" \notin DOMAIN last.info
    /\ ~escaped

C5_Witness ==
    /\ Sent /\ last.node = "chat"
    /\ inputs["chat"][1].link = "L1" /\ "L1" \in DOMAIN links
    /\ "cfg" \notin nodes
    /\ "llm_config" \notin DOMAIN last.info

\* C6: when the llm_config input leads to an existing origin node, the
\* record sent has exactly the keys among provider, base_url, model_name,
\* temperature, top_p, max_new_tokens, hf_token that are widgets of that
\* origin, each with the widget's value; nothing is read from a node
\* further upstream.
C6_ConfigMirrorsOrigin ==
    (Sent /\ ~ConfigAbsent(last.node)) =>
        LET src == ConfigOrigin(last.node)
            fields == {"provider", "base_url", "model_name", "temperature",
                       "top_p", "max_new_tokens", "hf_token"}
        IN  /\ "llm_config" \in DOMAIN last.info
            /\ DOMAIN last.info["llm_config"] = fields \cap DOMAIN widgets[src]
            /\ \A f \in DOMAIN last.info["llm_config"] :
                  last.info["llm_config"][f] = widgets[src][f]

C6_Witness ==
    /\ Sent /\ last.node = "chat" /\ ~ConfigAbsent("chat")
    /\ DOMAIN widgets["cfg"] = {"provider", "model_name"}
    /\ last.info["llm_config"] = [provider |-> "ollama", model_name |-> "gpt-4o"]

\* C7: when the origin node has an api_key widget with value K, the
\* llm_config sent has api_key = K.
C7_ApiKeyIsSent ==
    (Sent /\ ~ConfigAbsent(last.node)
          /\ "api_key" \in DOMAIN widgets[ConfigOrigin(last.node)]) =>
        /\ "llm_config" \in DOMAIN last.info
        /\ "api_key" \in DOMAIN last.info["llm_config"]
        /\ last.info["llm_config"]["api_key"]
             = widgets[ConfigOrigin(last.node)]["api_key"]

\* C8: on a slot that lists a link that does not resolve beside one that
\* does, the one that does still receives the value, whichever comes
\* first, and the dispatch ends done: nothing was thrown.
C8_PropagationIsBestEffort ==
    Landed =>
        /\ widgets[last.node]["status"] = "done"
        /\ ~escaped
        /\ \A slot \in {1, 2} :
              \A bad, good \in SlotLinks(last.node, slot) :
                 (~Resolves(bad) /\ Resolves(good)) =>
                    TargetValue(good) =
                       OrEmpty(Field(last.info.outcome.json,
                                     IF slot = 1 THEN "assistant_response"
                                     ELSE "readable_history"))

C8_Witness ==
    /\ Landed
    /\ outputs["chat"][1].links[1] = "L4" /\ ~Resolves("L4")
    /\ outputs["chat"][1].links[2] = "L2" /\ Resolves("L2")
    /\ widgets["text"]["text"] = "hi"

\* C9: a step in which the viewer's history callback ran with text T: if
\* the modal was open it now shows T, is still open and has a scroll
\* scheduled; if it was closed or not built it is left as it was.  The
\* modal goes from hidden to shown only by Open History.
C9_ModalFollowsHistoryWhenOpen ==
    [][ /\ (last'.kind = "landed" /\ last'.info.calls # <<>>) =>
             LET T == last'.info.calls[Len(last'.info.calls)] IN
             IF ModalOpen
             THEN /\ historyModal'[1].textContent = T
                  /\ historyModal'[1].display = "flex"
                  /\ scrollTimers' > scrollTimers
             ELSE /\ historyModal' = historyModal
                  /\ scrollTimers' = scrollTimers
        /\ (~ModalOpen /\ ModalOpen') => last'.kind = "open"
      ]_vars

C9_Witness ==
    /\ Landed /\ last.info.calls = <<"A B">>
    /\ ModalOpen /\ historyModal[1].textContent = "A B"
    /\ scrollTimers > 0

\* C10: after the deferred handler ran on a node, base_url and model_name
\* are disabled exactly when the node's llm_config input has a non-null
\* link; the handler changes no other disabled flag and no widget value.
C10_LockReflectsConnection ==
    [][ (last'.kind = "lock") =>
          LET n == last'.node
              connected == /\ n \in DOMAIN inputs
                           /\ \E i \in DOMAIN inputs[n] :
                                 /\ inputs[n][i].name = "llm_config"
                                 /\ inputs[n][i].link # Null
          IN  /\ \A w \in LockedWidgets \cap DOMAIN widgets[n] :
                    (disabled'[n][w] = "true") <=> connected
              /\ \A m \in DOMAIN disabled : \A w \in DOMAIN disabled[m] :
                    (m # n \/ w \notin LockedWidgets)
                        => disabled'[m][w] = disabled[m][w]
              /\ UNCHANGED <<widgets, graphVars>>
      ]_vars

C10_Witness ==
    /\ last.kind = "lock" /\ last.node = "chat"
    /\ inputs["chat"][1].link = Null
    /\ disabled["chat"]["base_url"] = "false"
    /\ disabled["chat"]["model_name"] = "false"
    /\ disabled["chat"]["user_message"] = Undefined

----------------------------------------------------------------------------
(* C11 .. C20 *)

\* What the modal shows; nothing before it is built
Shown(m) == IF m = <<>> THEN "" ELSE m[1].textContent

\* C11: the modal shows exactly the text of the most recent open call: an
\* Open History click leaves it showing that viewer's history text (the
\* empty text when there is none), a history update that arrives while it is
\* open leaves it showing the updated text, and no other step changes what
\* it shows; the text shown before never remains in it.
C11_ModalShowsLastOpenedText ==
    [][ IF last'.kind = "open"
        THEN Shown(historyModal') = OrEmpty(widgets[last'.node]["history"])
        ELSE IF last'.kind = "landed" /\ last'.info.calls # <<>> /\ ModalOpen
        THEN Shown(historyModal') =
               OrEmpty(last'.info.calls[Len(last'.info.calls)])
        ELSE Shown(historyModal') = Shown(historyModal)
      ]_vars

C11_Witness ==
    /\ last.kind = "open" /\ last.node = "viewer2"
    /\ widgets["viewer"]["history"] = "A B"
    /\ widgets["viewer2"]["history"] = "A"
    /\ scrollTimers = 2
    /\ Shown(historyModal) = "A"

\* C12: the document holds one overlay and one keydown listener once the
\* modal was built and none before; opening again reuses the modal, closing
\* hides it and keeps it, and closing or asking whether it is open before
\* it was built builds nothing.
C12_OneModalInstance ==
    /\ document.overlays = (IF historyModal = <<>> THEN 0 ELSE 1)
    /\ document.keydown = document.overlays
    /\ (last.kind = "open") => historyModal # <<>>
    /\ closeHistoryModal(Heap).document = document
    /\ (closeHistoryModal(Heap).historyModal = <<>>) <=> (historyModal = <<>>)
    /\ ~isHistoryModalOpen(closeHistoryModal(Heap))
    /\ \A t \in {"", "A"} :
          /\ openHistoryModal(Heap, t).document = [overlays |-> 1, keydown |-> 1]
          /\ historyModal = <<>> => historyOnChange(Heap, t).historyModal = <<>>

C12_Witness ==
    /\ last.kind = "close"
    /\ historyModal # <<>> /\ historyModal[1].display = "none"
    /\ historyModal[1].textContent = "A"
    /\ document = [overlays |-> 1, keydown |-> 1]
    /\ scrollTimers = 2

\* The widget a resolvable link delivers to, as <<node, widget name>>
Target(l) ==
    <<links[l].target_id,
      inputs[links[l].target_id][links[l].target_slot].widget>>

C14_PropagationSparesSource ==
    \A n \in ChatNodes : \A slot \in {1, 2} : \A value \in {"", "hi"} :
        LET h == propagateOutput(Heap, n, slot, value) IN
        /\ h.widgets[n] = widgets[n]
        /\ \A m \in DOMAIN widgets :
              h.widgets[m] # widgets[m] =>
                 \E l \in SlotLinks(n, slot) :
                    l \in DOMAIN links /\ links[l].target_id = m

\* The requests that come back with a body
Successes == {o \in Outcomes : ~postJSON(o).threw}

\* What a node's caches and the targets of its resolvable links hold, read
\* from the widgets ws, agrees with the body data
HoldsFieldsOf(ws, n, data) ==
    LET R == OrEmpty(Field(data, "assistant_response"))
        H == OrEmpty(Field(data, "readable_history"))
    IN  /\ ws[n]["status"] = "done"
        /\ ws[n]["assistant_response_preview"] = R
        /\ ws[n]["history_preview"] = H
        /\ \A l \in SlotLinks(n, 1) : Resolves(l) => ws[Target(l)[1]][Target(l)[2]] = R
        /\ \A l \in SlotLinks(n, 2) : Resolves(l) => ws[Target(l)[1]][Target(l)[2]] = H

\* The widgets after the call pending[first] resumes with body a and then
\* the call pending[second] resumes with body b
LandBoth(first, a, second, b) ==
    sendActionSettle(
        sendActionSettle(Heap, pending[first].node, pending[first].action, a),
        pending[second].node, pending[second].action, b).widgets

\* C15: a landing leaves status "done" and the caches and linked widgets
\* holding the fields of the body that landed, whatever else is in flight;
\* and wherever two calls of one node are in flight, landing them in either
\* order leaves the fields of the body that landed second, also when that
\* is the call that was started first.
C15_LastLandingWins ==
    /\ Landed => HoldsFieldsOf(widgets, last.node, last.info.outcome.json)
    /\ \A i, j \in DOMAIN pending :
          (i < j /\ pending[i].node = pending[j].node) =>
             \A a, b \in Successes :
                /\ HoldsFieldsOf(LandBoth(j, b, i, a), pending[i].node, a.json)
                /\ HoldsFieldsOf(LandBoth(i, a, j, b), pending[i].node, b.json)

C15_Witness ==
    /\ Len(pending) = 2
    /\ pending[1] = [node |-> "chat", action |-> "send"]
    /\ pending[2] = [node |-> "chat", action |-> "regenerate"]
    /\ widgets["chat"]["status"] = "working: regenerate..."
    /\ \E a, b \in Successes :
          /\ OrEmpty(Field(a.json, "readable_history"))
                # OrEmpty(Field(b.json, "readable_history"))
          /\ LandBoth(2, b, 1, a)["chat"]["history_preview"]
                = OrEmpty(Field(a.json, "readable_history"))

\* The status texts: "working: <action>...", and the texts a node rests in
WorkingTexts == {statusWorking(a) : a \in Actions}
RestingTexts ==
    {"idle", "done"} \cup {statusError(postJSON(o).message) :
                              o \in {x \in Outcomes : postJSON(x).threw}}

InFlight(n) == {i \in DOMAIN pending : pending[i].node = n}

\* C16: a trigger, from whatever status, leaves "working: <action>..." with
\* the action it read; a node with no call in flight shows "idle", "done" or
\* an error text; and, every request settling in the end, a state with a call
\* in flight leads to a landing or a failure that leaves "done" or an error
\* text.
C16_StatusLifecycle ==
    /\ [](Sent => widgets[last.node]["status"] = statusWorking(last.info["action"]))
    /\ [](\A n \in ChatNodes :
            InFlight(n) = {} => widgets[n]["status"] \in RestingTexts)
    /\ \A n \in ChatNodes :
          (InFlight(n) # {}) ~>
             ((Landed \/ Failed) /\ last.node = n
              /\ widgets[n]["status"] \in RestingTexts \ {"idle"})

C16_Witness ==
    /\ Failed /\ last.node = "chat" /\ InFlight("chat") = {}
    /\ last.info.action = "regenerate"
    /\ widgets["chat"]["status"] = "error: Failed to fetch"

\* C17: after a request that came back with a body lacking
\* assistant_response, readable_history or both, the cache of each missing
\* field and the target of every resolvable link of its slot hold the empty
\* text, the status is "done" and no exception left sendAction.
C17_MissingFieldsAreEmpty ==
    Landed =>
       /\ widgets[last.node]["status"] = "done"
       /\ ~escaped
       /\ "assistant_response" \notin DOMAIN last.info.outcome.json =>
             /\ widgets[last.node]["assistant_response_preview"] = ""
             /\ \A l \in SlotLinks(last.node, 1) : Resolves(l) => TargetValue(l) = ""
       /\ "readable_history" \notin DOMAIN last.info.outcome.json =>
             /\ widgets[last.node]["history_preview"] = ""
             /\ \A l \in SlotLinks(last.node, 2) : Resolves(l) => TargetValue(l) = ""

C17_Witness ==
    /\ Landed /\ last.node = "chat"
    /\ last.info.outcome.json = [readable_history |-> "A"]
    /\ widgets["chat"]["assistant_response_preview"] = ""
    /\ widgets["chat"]["history_preview"] = "A"
    /\ Resolves("L2") /\ TargetValue("L2") = ""
    /\ widgets["chat"]["status"] = "done"

\* C18: the payload a trigger sends has, for every widget of the node not
\* named status, history_preview, assistant_response_preview or
\* auto_clear_input, a key of the widget's name with the widget's value; it
\* has none of those four keys; and its action key is the value of the
\* action widget, or "send" on a node without one.
C18_PayloadKeys ==
    Sent =>
       LET n == last.node
           payload == last.info
           four == {"status", "history_preview", "assistant_response_preview",
                    "auto_clear_input"}
       IN  /\ \A w \in DOMAIN widgets[n] \ four :
                 w \in DOMAIN payload /\ payload[w] = widgets[n][w]
           /\ DOMAIN payload \cap four = {}
           /\ "action" \in DOMAIN payload
           /\ payload["action"] = IF "action" \in DOMAIN widgets[n]
                                  THEN widgets[n]["action"] ELSE "send"

C18_Witness ==
    /\ Sent /\ last.node = "chat"
    /\ widgets["chat"]["action"] = "regenerate"
    /\ last.info["action"] = "regenerate"
    /\ last.info["user_message"] = "hello"
    /\ last.info["Execute"] = Null
    /\ "auto_clear_input" \in DOMAIN widgets["chat"]
    /\ "auto_clear_input" \notin DOMAIN last.info

\* C19: in the step that follows an Open History click on a viewer, unless
\* that step closes the modal or is another Open History click, the modal
\* is still open and shows the current value of that viewer's history
\* widget.
C19_ModalTracksItsOpener ==
    [][ (last.kind = "open" /\ last'.kind \notin {"open", "close"}) =>
           /\ ModalOpen'
           /\ Shown(historyModal') = OrEmpty(widgets'[last.node]["history"])
      ]_vars

\* C20: a node whose status reads "working: a..." has a call with action a
\* in flight; with no call in flight its status is no working text.
C20_WorkingMeansInFlight ==
    \A n \in ChatNodes :
        /\ \A a \in Actions :
              widgets[n]["status"] = statusWorking(a) =>
                 \E i \in InFlight(n) : pending[i].action = a
        /\ InFlight(n) = {} => widgets[n]["status"] \notin WorkingTexts

C20_Witness ==
    /\ Sent /\ last.node = "chat"
    /\ widgets["chat"]["status"] = "working: send..."
    /\ Len(pending) = 2
    /\ pending[1].action = "regenerate" /\ pending[2].action = "send"
    /\ widgets["chat"]["history_preview"] = "A"

----------------------------------------------------------------------------
(* C21 *)

\* C21: a trigger suspends its call with the action the action widget holds
\* at that moment; when the call lands, user_message becomes empty exactly
\* when that suspended action is send and auto_clear_input is true at the
\* landing, whatever the action widget and user_message hold by then, and
\* is otherwise left as it is.
C21_ClearUsesCapturedAction ==
    [][ /\ (last'.kind = "sent") =>
             /\ Len(pending') = Len(pending) + 1
             /\ pending'[Len(pending')] =
                   [node |-> last'.node,
                    action |-> IF "action" \in DOMAIN widgets[last'.node]
                               THEN widgets[last'.node]["action"] ELSE "send"]
        /\ (last'.kind = "landed") =>
             LET n == last'.node
                 toggle == "auto_clear_input" \in DOMAIN widgets[n]
                           /\ widgets[n]["auto_clear_input"] = TRUE
             IN  /\ \E i \in DOMAIN pending :
                       /\ pending[i] = [node |-> n, action |-> last'.info.action]
                       /\ pending' = Remove(pending, i)
                 /\ (last'.info.action = "send" /\ toggle) =>
                       widgets'[n]["user_message"] = ""
                 /\ ~(last'.info.action = "send" /\ toggle) =>
                       widgets'[n]["user_message"] = widgets[n]["user_message"]
                 /\ widgets'[n]["action"] = widgets[n]["action"]
      ]_vars

\* A send landed after the action widget was switched to regenerate
C21_Witness ==
    /\ Landed /\ last.node = "chat"
    /\ last.info.action = "send"
    /\ widgets["chat"]["action"] = "regenerate"
    /\ widgets["chat"]["auto_clear_input"] = TRUE
    /\ widgets["chat"]["user_message"] = ""
    /\ pending = <<>>

====
